---- MODULE Spec2Model ----
(***************************************************************************)
(* Model of pool.LockFreePool (src/pool/pool.go): a pool of values kept in *)
(* slices ("batches") that travel between two sync.Pool caches, emptyPool  *)
(* (batches with room to grow) and fullPool (batches ready to consume).    *)
(*                                                                         *)
(* sync.Pool is the Go standard library's cache; it is modelled as a bag   *)
(* of batch pointers: Get removes any resident pointer, or runs New when   *)
(* none is resident; Put adds the pointer.  Eviction of resident items by  *)
(* the garbage collector is not modelled.                                  *)
(***************************************************************************)
EXTENDS Bags, FiniteSets, Integers, Sequences, TLC

\* ---- bounds of the model ----
NumThreads == 2
MaxK       == 2
MaxOps     == 4
MaxSeqOps  == 6
MaxLiveOps == 2
MaxAltOps  == 12
MaxLogOps  == 3
MaxAnyOps  == 2
MaxFailOps == 3
MaxOptVal  == 3

\* ---- program constants ----
POOL_SIZE_PER_CPU   == 256
INIT_FULL_POOL_SIZE == 256

Threads == 1 .. NumThreads

\* nil interface{} value of a slot that make() has zeroed
Nil == 0

\* Values are opaque and distinct.  The value alloc() returns is named after
\* the slot p[i] of the batch it is first stored in, the value a caller makes
\* after the caller and its count.
FactoryVal(b, i) == 1000 * b + i

CallerVal(t, k) == 0 - (1000 * t + k)

VARIABLES
    options,      \* the options handed to NewLockFreePool
    constructed,  \* NewLockFreePool has returned
    K,            \* poolSizePerCPU captured by the closures
    N,            \* initFullPoolSize captured by the closures
    emptyPool,    \* p.emptyPool: bag of batch pointers
    fullPool,     \* p.fullPool: bag of batch pointers
    batch,        \* heap: batch pointer -> [elems, cap] of the slice it points to,
                  \* and the function that made it (by)
    made,         \* log of the values returned by alloc(), in order of invocation
    allocs,       \* number of invocations of alloc()
    mine,         \* per thread: number of values the caller has made itself
    pc,           \* per thread: position inside its current call
    cur,          \* per thread: batch pointer held by the call (0: none)
    fi,           \* per thread: loop index i of newFullSlice
    xv,           \* per thread: argument x of the running Put
    held,         \* per thread: bag of values the caller got and has not put back
    opsLeft,      \* calls that may still be started
    active,       \* threads that call into the pool
    rec,          \* what is logged: "calls" in trace, "made" in made
    trace         \* log of completed calls, in order of completion: the call, its
                  \* value, and whether its batch went to the other cache

vars == << options, constructed, K, N, emptyPool, fullPool, batch, made, allocs, mine,
           pc, cur, fi, xv, held, opsLeft, active, rec, trace >>

poolVars == << emptyPool, fullPool, batch, made, allocs, mine, pc, cur, fi, xv, held,
               opsLeft, trace >>

\* ---- options and construction ----
OptK(v) == [tag |-> "PoolSizePerCPU", val |-> v]
OptN(v) == [tag |-> "InitFullPoolSize", val |-> v]
OptOther(v) == [tag |-> "other", val |-> v]

RECURSIVE ApplyOptions(_, _, _)
ApplyOptions(opts, k, n) ==
    IF opts = << >> THEN << k, n >>
    ELSE LET opt == Head(opts) IN
         IF opt.tag = "PoolSizePerCPU" THEN ApplyOptions(Tail(opts), opt.val, n)
         ELSE IF opt.tag = "InitFullPoolSize" THEN ApplyOptions(Tail(opts), k, opt.val)
         ELSE ApplyOptions(Tail(opts), k, n)

\* variant: the test of initFullPoolSize <= 0 is missing
InvalidNoSign(k, n) == k < n

\* variant: poolSizePerCPU <= initFullPoolSize rejects K = N
InvalidLE(k, n) == k <= n \/ n <= 0

\* line 68
Invalid(k, n) == k < n \/ n <= 0

\* variant: an initial fill above the capacity is lowered to the capacity
NewLockFreePoolClamp(opts) ==
    LET r == ApplyOptions(opts, POOL_SIZE_PER_CPU, INIT_FULL_POOL_SIZE) IN
    IF r[1] <= 0 \/ r[2] <= 0 THEN << POOL_SIZE_PER_CPU, INIT_FULL_POOL_SIZE >>
    ELSE IF r[1] < r[2] THEN << r[1], r[1] >> ELSE r

\* lines 59-71: the defaults, the options in order, then the validation
NewLockFreePool(opts) ==
    LET r == ApplyOptions(opts, POOL_SIZE_PER_CPU, INIT_FULL_POOL_SIZE) IN
    IF Invalid(r[1], r[2]) THEN << POOL_SIZE_PER_CPU, INIT_FULL_POOL_SIZE >> ELSE r

\* ---- slices ----
\* variant: make without the capacity argument
newEmptySliceNoCap == [elems |-> << >>, cap |-> 0, by |-> "newEmptySlice"]

\* make([]interface{}, 0, poolSizePerCPU)
newEmptySlice == [elems |-> << >>, cap |-> K, by |-> "newEmptySlice"]

\* variant: the new ready batch is filled to its capacity
InitLenK == K

\* variant: the new ready batch gets half of its initial fill
InitLenHalf == N \div 2

\* make([]interface{}, initFullPoolSize, poolSizePerCPU) and the loop bound
InitLen == N

\* variant: the loop stops after its first iteration
FillMoreOnce(i) == i < 1

\* the condition of newFullSlice's loop, i < initFullPoolSize
FillMore(i) == i < InitLen

newFullSliceMake ==
    [elems |-> [j \in 1 .. InitLen |-> Nil], cap |-> K, by |-> "newFullSlice"]

\* append(s, x): grows the backing array when len = cap (the runtime at least
\* doubles a small capacity)
GrownCap(c) == IF c = 0 THEN 1 ELSE 2 * c

\* variant: the appended value is lost
SliceAppendLost(s, x) == s

SliceAppend(s, x) ==
    [s EXCEPT !.elems = Append(s.elems, x),
              !.cap   = IF Len(s.elems) < s.cap THEN s.cap ELSE GrownCap(s.cap)]

\* pool[len(pool)-1] and pool[:len(pool)-1]
\* variant: Get returns pool[0]
FirstElem(s) == s.elems[1]

LastElem(s) == s.elems[Len(s.elems)]

\* variant: Get forgets to shorten the slice
KeepAll(s) == s

DropLast(s) == [s EXCEPT !.elems = SubSeq(s.elems, 1, Len(s.elems) - 1)]

\* ---- sync.Pool as a bag of pointers ----
PoolPut(pool, b) == pool (+) SetToBag({b})

PoolTake(pool, b) == pool (-) SetToBag({b})

Resident(pool) == BagToSet(pool)

\* variant: a cache without New, whose fetch waits for a batch to be put
FetchWaits(pool) == pool # EmptyBag

\* both caches are built with New set (lines 84-89): a fetch never waits for
\* a batch to be put, it makes one when none is resident
FetchReady(pool) == TRUE

\* variant: Get never reuses a resident batch
ReadyBatchesNone == {}

\* the batches p.fullPool.Get() may hand to Get (line 34)
ReadyBatches == Resident(fullPool)

\* ---- which cache a call gives its batch back to ----
\* variant: len(pool) >= 1
GetKeepsFullGE(len) == len >= 1

\* Get, line 38: len(pool) > 1, the length before the pop
GetKeepsFull(len) == len > 1

\* variant: the batch counts as full one value early
PutKeepsEmptyEarly(len, c) == len + 1 < c

\* variant: len(*pool) <= cap(*pool)
PutKeepsEmptyLE(len, c) == len <= c

\* Put, line 49: len(*pool) < cap(*pool), the length after the append
PutKeepsEmpty(len, c) == len < c

\* variant: Get never gives a batch back to fullPool
GetFullAfterNever(len, b) == fullPool

\* the two caches after Get has given batch b back (lines 38-42)
GetFullAfter(len, b) == IF GetKeepsFull(len) THEN PoolPut(fullPool, b) ELSE fullPool

\* variant: the else is missing, the batch also goes to emptyPool
GetEmptyAfterBoth(len, b) == PoolPut(emptyPool, b)

\* variant: an emptied batch is dropped instead of recycled
GetEmptyAfterDrop(len, b) == emptyPool

GetEmptyAfter(len, b) == IF GetKeepsFull(len) THEN emptyPool ELSE PoolPut(emptyPool, b)

\* the two caches after Put has given batch b back (lines 49-53)
PutEmptyAfter(len, c, b) == IF PutKeepsEmpty(len, c) THEN PoolPut(emptyPool, b) ELSE emptyPool

\* variant: a batch that became full is dropped
PutFullAfterDrop(len, c, b) == fullPool

PutFullAfter(len, c, b) == IF PutKeepsEmpty(len, c) THEN fullPool ELSE PoolPut(fullPool, b)

Log(ev) == IF "calls" \in rec THEN Append(trace, ev) ELSE trace

\* ---- initial states ----
\* K then N, with 0 < N <= K <= MaxK
ValidOptions ==
    { o \in { << OptK(k), OptN(n) >> : k \in 1 .. MaxK, n \in 1 .. MaxK } :
          o[2].val <= o[1].val }

InitWith(opts, thr, ops, r) ==
    /\ options \in opts
    /\ constructed = FALSE
    /\ K = 0
    /\ N = 0
    /\ emptyPool = EmptyBag
    /\ fullPool = EmptyBag
    /\ batch = << >>
    /\ made = << >>
    /\ allocs = 0
    /\ mine = [t \in Threads |-> 0]
    /\ pc = [t \in Threads |-> "idle"]
    /\ cur = [t \in Threads |-> 0]
    /\ fi = [t \in Threads |-> 0]
    /\ xv = [t \in Threads |-> Nil]
    /\ held = [t \in Threads |-> EmptyBag]
    /\ opsLeft = ops
    /\ active = thr
    /\ rec = r
    /\ trace = << >>

Init == InitWith(ValidOptions, Threads, MaxOps, {})

\* one thread, calls logged; the configurations include K=4, N=2
SeqOptions == ValidOptions \cup { << OptK(4), OptN(2) >> }

InitSeq == InitWith(SeqOptions, {1}, MaxSeqOps, {"calls", "made"})

\* all threads, calls logged
InitLog == InitWith(ValidOptions, Threads, MaxLogOps, {"calls"})

\* the same with a factory that may panic
InitFail == InitWith(ValidOptions, Threads, MaxFailOps, {"calls", "panics"})

\* fewer calls, for the liveness check
InitLive == InitWith(ValidOptions, Threads, MaxLiveOps, {})

\* every list of at most two options, valid or not
OptValues == (-1 .. MaxOptVal) \cup {10, 20}

AnyOption == { OptK(v) : v \in OptValues } \cup { OptN(v) : v \in OptValues }
                 \cup { OptOther(v) : v \in OptValues }

CfgOptions == { << >> } \cup { << o >> : o \in AnyOption }
                  \cup { << o1, o2 >> : o1 \in AnyOption, o2 \in AnyOption }

InitCfg == InitWith(CfgOptions, {}, 0, {})

\* one thread on a pool built from any list of options
InitAny == InitWith(CfgOptions, {1}, MaxAnyOps, {})

\* ---- NewLockFreePool ----
Construct ==
    /\ ~constructed
    /\ constructed' = TRUE
    /\ K' = NewLockFreePool(options)[1]
    /\ N' = NewLockFreePool(options)[2]
    /\ UNCHANGED << options, active, rec >>
    /\ UNCHANGED poolVars

\* ---- Get ----
CanCall(t) ==
    /\ constructed
    /\ t \in active
    /\ pc[t] = "idle"
    /\ opsLeft > 0

\* Get is called; p.fullPool.Get(): a resident batch, or New (newFullSlice) up
\* to its make()
GetFetch(t) ==
    /\ CanCall(t)
    /\ FetchReady(fullPool)
    /\ opsLeft' = opsLeft - 1
    /\ IF ReadyBatches # {}
       THEN \E b \in ReadyBatches :
              /\ fullPool' = PoolTake(fullPool, b)
              /\ cur' = [cur EXCEPT ![t] = b]
              /\ pc' = [pc EXCEPT ![t] = "GetPop"]
              /\ UNCHANGED << batch, fi >>
       ELSE /\ batch' = Append(batch, newFullSliceMake)
            /\ cur' = [cur EXCEPT ![t] = Len(batch) + 1]
            /\ fi' = [fi EXCEPT ![t] = 0]
            /\ pc' = [pc EXCEPT ![t] = IF FillMore(0) THEN "GetFill" ELSE "GetPop"]
            /\ UNCHANGED fullPool
    /\ UNCHANGED << options, constructed, K, N, emptyPool, made, allocs, mine, xv, held,
                    active, rec, trace >>

\* what a call of the caller's alloc may do: return a value (FALSE) or, for a
\* factory that can fail, panic (TRUE)
AllocPanics == IF "panics" \in rec THEN BOOLEAN ELSE {FALSE}

\* variant: the batch under construction is put into fullPool when alloc panics
PanicFullAfterPut(pool, b) == PoolPut(pool, b)

\* fullPool after a panic in newFullSlice: nothing recovers or defers in
\* lines 76-82, 84-89 or 33-44, so no Put is reached
PanicFullAfter(pool, b) == pool

\* one iteration of newFullSlice's loop: p[i] = alloc().  A panic of alloc
\* unwinds newFullSlice, the cache's New and Get up to the caller, which
\* recovers and may call again (a caller that does not recover ends the
\* program: no later state)
GetFill(t) ==
    /\ pc[t] = "GetFill"
    /\ \E panics \in AllocPanics :
          IF panics
          THEN /\ fullPool' = PanicFullAfter(fullPool, cur[t])
               /\ pc' = [pc EXCEPT ![t] = "idle"]
               /\ cur' = [cur EXCEPT ![t] = 0]
               /\ trace' = Log([op |-> "GetPanic", v |-> Nil, moved |-> FALSE])
               /\ UNCHANGED << made, allocs, batch, fi >>
          ELSE /\ LET v == FactoryVal(cur[t], fi[t] + 1) IN
                  /\ allocs' = allocs + 1
                  /\ made' = IF "made" \in rec THEN Append(made, v) ELSE made
                  /\ batch' = [batch EXCEPT ![cur[t]].elems[fi[t] + 1] = v]
               /\ fi' = [fi EXCEPT ![t] = fi[t] + 1]
               /\ pc' = [pc EXCEPT ![t] = IF FillMore(fi[t] + 1) THEN "GetFill" ELSE "GetPop"]
               /\ UNCHANGED << fullPool, cur, trace >>
    /\ UNCHANGED << options, constructed, K, N, emptyPool, mine, xv,
                    held, opsLeft, active, rec >>

\* pop the last element, give the batch back, return the element
GetReturn(t) ==
    /\ pc[t] = "GetPop"
    /\ LET b == cur[t]
           pool == batch[b]
       IN IF Len(pool.elems) = 0
          THEN \* index out of range: the goroutine panics holding the batch
               /\ pc' = [pc EXCEPT ![t] = "panic"]
               /\ UNCHANGED << batch, emptyPool, fullPool, cur, held, trace >>
          ELSE /\ batch' = [batch EXCEPT ![b] = DropLast(pool)]
               /\ fullPool' = GetFullAfter(Len(pool.elems), b)
               /\ emptyPool' = GetEmptyAfter(Len(pool.elems), b)
               /\ cur' = [cur EXCEPT ![t] = 0]
               /\ held' = [held EXCEPT ![t] = held[t] (+) SetToBag({LastElem(pool)})]
               /\ trace' = Log([op |-> "Get", v |-> LastElem(pool),
                                 moved |-> CopiesIn(b, emptyPool') > CopiesIn(b, emptyPool)])
               /\ pc' = [pc EXCEPT ![t] = "idle"]
    /\ UNCHANGED << options, constructed, K, N, made, allocs, mine, fi, xv, opsLeft,
                    active, rec >>

\* ---- Put ----
\* p.emptyPool.Get(): a resident batch, or New (newEmptySlice)
PutFetch(t) ==
    /\ FetchReady(emptyPool)
    /\ IF emptyPool # EmptyBag
       THEN \E b \in Resident(emptyPool) :
              /\ emptyPool' = PoolTake(emptyPool, b)
              /\ cur' = [cur EXCEPT ![t] = b]
              /\ UNCHANGED batch
       ELSE /\ batch' = Append(batch, newEmptySlice)
            /\ cur' = [cur EXCEPT ![t] = Len(batch) + 1]
            /\ UNCHANGED emptyPool
    /\ pc' = [pc EXCEPT ![t] = "PutApp"]
    /\ opsLeft' = opsLeft - 1
    /\ UNCHANGED << options, constructed, K, N, fullPool, made, allocs, fi, active, rec,
                    trace >>

\* Put(x) is called with a value the caller got from Get
PutHeld(t) ==
    /\ CanCall(t)
    /\ \E x \in BagToSet(held[t]) :
         /\ held' = [held EXCEPT ![t] = held[t] (-) SetToBag({x})]
         /\ xv' = [xv EXCEPT ![t] = x]
    /\ UNCHANGED mine
    /\ PutFetch(t)

\* Put(x) is called with a value the caller made itself
PutNew(t) ==
    /\ CanCall(t)
    /\ mine' = [mine EXCEPT ![t] = mine[t] + 1]
    /\ xv' = [xv EXCEPT ![t] = CallerVal(t, mine[t] + 1)]
    /\ UNCHANGED held
    /\ PutFetch(t)

\* append x, give the batch back
PutReturn(t) ==
    /\ pc[t] = "PutApp"
    /\ LET b == cur[t]
           pool == SliceAppend(batch[b], xv[t])
       IN /\ batch' = [batch EXCEPT ![b] = pool]
          /\ emptyPool' = PutEmptyAfter(Len(pool.elems), pool.cap, b)
          /\ fullPool' = PutFullAfter(Len(pool.elems), pool.cap, b)
          /\ trace' = Log([op |-> "Put", v |-> xv[t],
                            moved |-> CopiesIn(b, fullPool') > CopiesIn(b, fullPool)])
    /\ cur' = [cur EXCEPT ![t] = 0]
    /\ xv' = [xv EXCEPT ![t] = Nil]
    /\ pc' = [pc EXCEPT ![t] = "idle"]
    /\ UNCHANGED << options, constructed, K, N, made, allocs, mine, fi, held, opsLeft,
                    active, rec >>

\* the steps of a call that is in progress
Step(t) == GetFill(t) \/ GetReturn(t) \/ PutReturn(t)

Next ==
    \/ Construct
    \/ \E t \in Threads : GetFetch(t)
    \/ \E t \in Threads : GetFill(t)
    \/ \E t \in Threads : GetReturn(t)
    \/ \E t \in Threads : PutHeld(t)
    \/ \E t \in Threads : PutNew(t)
    \/ \E t \in Threads : PutReturn(t)

Spec == Init /\ [][Next]_vars

\* single-threaded use, with the log of completed calls
SpecSeq == InitSeq /\ [][Next]_vars

\* concurrent use, with the log of completed calls
SpecLog == InitLog /\ [][Next]_vars

\* concurrent use with a factory that may panic, the completed calls logged
SpecFail == InitFail /\ [][Next]_vars

\* single-threaded use of a pool built from any list of options
SpecAny == InitAny /\ [][Next]_vars

\* construction alone, over all option lists
NextCfg == Construct

SpecCfg == InitCfg /\ [][NextCfg]_vars

\* threads are scheduled fairly: a call in progress keeps taking its steps
LiveSpec == InitLive /\ [][Next]_vars /\ \A t \in Threads : WF_vars(Step(t))

\* one thread alternating Put and Get on a pool with K=4, N=2, calls logged
InitAlt == InitWith({ << OptK(4), OptN(2) >> }, {1}, MaxAltOps, {"calls", "made"})

AltPutNew(t) == Len(trace) % 2 = 0 /\ PutNew(t)

AltPutHeld(t) == Len(trace) % 2 = 0 /\ PutHeld(t)

AltGet(t) == Len(trace) % 2 = 1 /\ GetFetch(t)

NextAlt ==
    \/ Construct
    \/ \E t \in Threads : AltPutNew(t)
    \/ \E t \in Threads : AltPutHeld(t)
    \/ \E t \in Threads : PutReturn(t)
    \/ \E t \in Threads : AltGet(t)
    \/ \E t \in Threads : GetFill(t)
    \/ \E t \in Threads : GetReturn(t)

SpecAlt == InitAlt /\ [][NextAlt]_vars

TypeOK ==
    /\ constructed \in BOOLEAN
    /\ allocs \in Nat
    /\ opsLeft \in Nat
    /\ \A t \in Threads : pc[t] \in {"idle", "GetFill", "GetPop", "PutApp", "panic"}

\* ---- properties ----

BatchIds == 1 .. Len(batch)

Holders(b) == { t \in Threads : cur[t] = b }

\* C1: every batch resident in fullPool (the "ready to consume" cache) has
\* length >= 1.
C1_FullPoolNonEmpty ==
    \A b \in Resident(fullPool) : Len(batch[b].elems) >= 1

\* a Get has left a batch of length exactly 1, with room for more, in fullPool
C1_Witness ==
    \E b \in Resident(fullPool) :
        /\ Len(batch[b].elems) = 1
        /\ batch[b].cap > 1
        /\ \E t \in Threads : BagIn(FactoryVal(b, 2), held[t])

\* C2: every batch resident in emptyPool (the "room to grow" cache) has length
\* strictly less than its capacity, and that capacity is K.
C2_EmptyPoolHasRoom ==
    \A b \in Resident(emptyPool) :
        /\ Len(batch[b].elems) < batch[b].cap
        /\ batch[b].cap = K

\* a Put has left a batch one short of full in emptyPool
C2_Witness ==
    \E b \in Resident(emptyPool) :
        /\ Len(batch[b].elems) = K - 1
        /\ Len(batch[b].elems) >= 1

\* C3: each created batch is owned by exactly one of: one thread's call in
\* progress, emptyPool, fullPool; never in both caches, never twice in one
\* cache, never held by two calls.
C3_ExclusiveOwnership ==
    \A b \in BatchIds :
        CopiesIn(b, emptyPool) + CopiesIn(b, fullPool) + Cardinality(Holders(b)) = 1

\* two calls in progress hold different batches while a cache holds a third
C3_Witness ==
    /\ \E t1, t2 \in Threads : t1 # t2 /\ cur[t1] # 0 /\ cur[t2] # 0
    /\ emptyPool # EmptyBag \/ fullPool # EmptyBag

HeldValues == UNION { BagToSet(held[t]) \cup {xv[t]} : t \in Threads } \ {Nil}

Holds(t, v) == BagIn(v, held[t]) \/ xv[t] = v

\* C4: no value is held by two threads at once, nor twice by one thread: a
\* value returned by a Get is not returned by another Get before it is put back.
C4_NoValueHeldTwice ==
    \A v \in HeldValues :
        /\ \A t \in Threads : CopiesIn(v, held[t]) + (IF xv[t] = v THEN 1 ELSE 0) <= 1
        /\ \A t1, t2 \in Threads : t1 # t2 => ~(Holds(t1, v) /\ Holds(t2, v))

\* two threads hold values the factory made, taken out of one batch
C4_Witness ==
    \E t1, t2 \in Threads, b \in BatchIds :
        /\ t1 # t2
        /\ BagIn(FactoryVal(b, 1), held[t1])
        /\ BagIn(FactoryVal(b, 2), held[t2])

BatchesConserved ==
    BagCardinality(emptyPool) + BagCardinality(fullPool)
        + Cardinality({ t \in Threads : cur[t] # 0 }) = Len(batch)

ReturnedToOneCache ==
    \A t \in Threads :
        (pc[t] \in {"GetPop", "PutApp"} /\ pc'[t] = "idle") =>
            CopiesIn(cur[t], emptyPool') + CopiesIn(cur[t], fullPool') = 1

\* C9: a completed Get or Put has given the batch it fetched back to exactly
\* one cache, and the batches in the caches plus those held by calls in
\* progress are as many as the batches ever created.
C9_BatchesNeverLost == [](BatchesConserved) /\ [][ReturnedToOneCache]_vars

\* a Get has emptied a batch and recycled it into emptyPool
C9_Witness ==
    /\ \E b \in Resident(emptyPool) : Len(batch[b].elems) = 0
    /\ allocs >= 1
    /\ \A t \in Threads : pc[t] = "idle"
    /\ Len(batch) >= 2

AllIdle == \A t \in Threads : pc[t] = "idle"

HasValues(pool) == \E b \in Resident(pool) : Len(batch[b].elems) >= 1

MakesBatch(t) == pc[t] = "idle" /\ pc'[t] \in {"GetFill", "GetPop"} /\ Len(batch') > Len(batch)

PutsThenGets(tr, n) ==
    /\ Len(tr) = 2 * n
    /\ \A i \in 1 .. n : tr[i].op = "Put"
    /\ \A i \in (n + 1) .. (2 * n) : tr[i].op = "Get"

SameMultiset(tr, n) ==
    \A v \in { tr[i].v : i \in 1 .. Len(tr) } :
        Cardinality({ i \in 1 .. n : tr[i].v = v })
            = Cardinality({ i \in (n + 1) .. (2 * n) : tr[i].v = v })

\* C6 (as stated): single-threaded on a fresh pool, n Puts followed by n Gets
\* return exactly the values put, and the factory is never invoked, for every
\* n >= 1.
C6_Original ==
    \A n \in 1 .. MaxSeqOps :
        (PutsThenGets(trace, n) /\ AllIdle) => SameMultiset(trace, n) /\ allocs = 0

\* C6 (amended): the same, provided n is a multiple of the batch capacity K.
C6_PutsThenGetsMultipleOfK ==
    \A n \in 1 .. MaxSeqOps :
        (PutsThenGets(trace, n) /\ AllIdle /\ n % K = 0) =>
            SameMultiset(trace, n) /\ allocs = 0

\* K >= 2 values were put and then got back
C6_Witness ==
    \E n \in 1 .. MaxSeqOps :
        PutsThenGets(trace, n) /\ AllIdle /\ n % K = 0 /\ K >= 2

\* C7: the first Get on a fresh pool with no prior Put invokes the factory
\* exactly N times and returns the last of the N values made.
C7_FirstGetMakesN ==
    (trace # << >> /\ trace[1].op = "Get") =>
        /\ allocs >= N
        /\ Len(made) = allocs
        /\ trace[1].v = made[N]
        /\ (Len(trace) = 1 /\ AllIdle) => allocs = N

\* the first Get has completed on a pool with 1 < N < K
C7_Witness ==
    /\ Len(trace) = 1
    /\ trace[1].op = "Get"
    /\ AllIdle
    /\ 1 < N
    /\ N < K

LastVal(tag, default) ==
    LET idx == { i \in 1 .. Len(options) : options[i].tag = tag } IN
    IF idx = {} THEN default
    ELSE options[CHOOSE i \in idx : \A j \in idx : j <= i].val

\* C8: construction never fails; the effective configuration is the requested
\* (K, N) when 0 < N <= K and (256, 256) otherwise, so it satisfies 0 < N <= K.
C8_ConfigValidated ==
    /\ ~constructed => ENABLED Construct
    /\ constructed =>
          LET k == LastVal("PoolSizePerCPU", 256)
              n == LastVal("InitFullPoolSize", 256)
          IN /\ IF 0 < n /\ n <= k THEN K = k /\ N = n ELSE K = 256 /\ N = 256
             /\ 0 < N
             /\ N <= K

\* a pool built with K=10, N=20 has the default configuration
C8_Witness ==
    /\ constructed
    /\ options = << OptK(10), OptN(20) >>
    /\ K = 256
    /\ N = 256

InCall(t) == pc[t] \in {"GetFill", "GetPop", "PutApp"}

\* C10: every started Get or Put completes; a call never waits for another
\* thread: it can always be started and, once in progress, always has a step
\* it can take.
C10_CallsTerminate ==
    /\ [](\A t \in Threads : CanCall(t) => ENABLED GetFetch(t) /\ ENABLED PutNew(t))
    /\ [](\A t \in Threads : InCall(t) => ENABLED Step(t))
    /\ \A t \in Threads : InCall(t) ~> pc[t] = "idle"

\* a Get that found fullPool empty and a Put are in progress at the same time
C10_Witness ==
    \E t1, t2 \in Threads : pc[t1] = "GetFill" /\ pc[t2] = "PutApp"

RECURSIVE SumLen(_)
SumLen(S) ==
    IF S = {} THEN 0
    ELSE LET b == CHOOSE x \in S : TRUE IN
         (CopiesIn(b, emptyPool) + CopiesIn(b, fullPool)) * Len(batch[b].elems)
             + SumLen(S \ {b})

\* number of values in the batches resident in the two caches
PoolHeld == SumLen(Resident(emptyPool) \cup Resident(fullPool))

\* number of completed Put/Get pairs of an alternating run
Pairs == Len(trace) \div 2

AfterEvenPairs == AllIdle /\ Len(trace) % 4 = 0 /\ Pairs >= 2

\* C11 (as stated): alternating Put/Get with K=4, N=2 from a fresh pool: after
\* any even number of pairs the pool holds as many values as at the start (0).
C11_Original == AfterEvenPairs => PoolHeld = 0

AltTotals ==
    AfterEvenPairs => PoolHeld = allocs /\ allocs >= 2 /\ allocs % 2 = 0

AltTransfers ==
    \A b \in BatchIds :
        /\ (\E t \in Threads : cur[t] = b /\ pc[t] = "PutApp") =>
               (BagIn(b, fullPool') <=> Len(batch'[b].elems) = 4)
        /\ (\E t \in Threads : cur[t] = b /\ pc[t] = "GetPop") =>
               (BagIn(b, emptyPool') <=> Len(batch'[b].elems) = 0)

\* C11 (amended): in such a run a batch goes from growing to ready exactly when
\* a Put makes its length 4 and from ready to growing exactly when a Get makes
\* its length 0; after any even number of pairs the pool holds exactly the
\* values the factory has made so far, an even number of at least 2, so the
\* total does not return to its starting value.
C11_AlternatingChurn == [](AltTotals) /\ [][AltTransfers]_vars

\* an even number of pairs has run, a Put has filled a batch to length 4 and
\* Gets have since taken values out of it
C11_Witness ==
    /\ AfterEvenPairs
    /\ \E b \in Resident(fullPool) :
          /\ batch[b].elems # << >>
          /\ batch[b].elems[1] < 0
          /\ Len(batch[b].elems) < 4

OnlyGets(n) == Len(trace) = n /\ \A i \in 1 .. n : trace[i].op = "Get"

Elems(pool) == { batch[b].elems : b \in Resident(pool) }

\* C12: K=4, N=2, one thread; made[j] is the j-th value of the factory.  Three
\* Gets on a fresh pool return the 2nd, the 1st and the 4th value: the first
\* leaves [1] in fullPool, the second moves the emptied batch to emptyPool and
\* leaves fullPool empty, the third makes a new batch [3,4]; the factory has
\* then been invoked exactly 4 times.
C12_ThreeGets ==
    (K = 4 /\ N = 2 /\ AllIdle) =>
        /\ OnlyGets(1) =>
              /\ trace[1].v = made[2]
              /\ Elems(fullPool) = { << made[1] >> }
              /\ BagCardinality(fullPool) = 1
              /\ emptyPool = EmptyBag
        /\ OnlyGets(2) =>
              /\ trace[2].v = made[1]
              /\ fullPool = EmptyBag
              /\ Elems(emptyPool) = { << >> }
              /\ BagCardinality(emptyPool) = 1
              /\ allocs = 2
        /\ OnlyGets(3) =>
              /\ << trace[1].v, trace[2].v, trace[3].v >> = << made[2], made[1], made[4] >>
              /\ Elems(fullPool) = { << made[3] >> }
              /\ Len(batch) = 2
              /\ allocs = 4
              /\ Len(made) = 4

\* the three Gets have completed
C12_Witness == K = 4 /\ N = 2 /\ AllIdle /\ OnlyGets(3)

Transfers == Cardinality({ i \in 1 .. Len(trace) : trace[i].moved })

\* C13 (as stated): the calls that give their batch back to the other cache
\* are at most the number of completed calls divided by K, rounded up.
C13_Original == constructed => K * Transfers < Len(trace) + K

\* C13 (amended): they are at most the number of completed calls divided by
\* the initial fill N (one in every N calls; one in every K when N = K).
C13_TransfersAmortized == constructed => N * Transfers <= Len(trace)

\* with N < K, calls have moved batches more than once per K calls
C13_Witness == N < K /\ Transfers >= 2 /\ K * Transfers > Len(trace)

InEmptyOnly(b) == BagIn(b, emptyPool') /\ ~BagIn(b, fullPool')

InFullOnly(b) == BagIn(b, fullPool') /\ ~BagIn(b, emptyPool')

BoundaryOnly ==
    /\ \A t \in Threads :
          /\ (pc[t] = "PutApp" /\ pc'[t] = "idle") =>
                IF Len(batch'[cur[t]].elems) = K
                THEN InFullOnly(cur[t]) ELSE InEmptyOnly(cur[t])
          /\ (pc[t] = "GetPop" /\ pc'[t] = "idle") =>
                IF Len(batch'[cur[t]].elems) = 0
                THEN InEmptyOnly(cur[t]) ELSE InFullOnly(cur[t])
    /\ \A b \in BatchIds :
          /\ BagIn(b, emptyPool) => ~BagIn(b, fullPool')
          /\ BagIn(b, fullPool) => ~BagIn(b, emptyPool')

\* C14: a batch goes from emptyPool to fullPool only in a Put whose append
\* makes its length exactly K, and from fullPool to emptyPool only in a Get
\* whose removal makes its length exactly 0; every other Get gives the batch
\* back to fullPool and every other Put to emptyPool.
C14_TransferOnlyAtBoundary == [][BoundaryOnly]_vars

\* a Put has filled a batch to K >= 2 and a Get has emptied another
C14_Witness ==
    /\ K >= 2
    /\ \E b \in Resident(fullPool) : Len(batch[b].elems) = K /\ batch[b].elems[1] < 0
    /\ \E b \in Resident(emptyPool) : Len(batch[b].elems) = 0 /\ allocs >= 1

\* C15: every batch, resident or held by a call, has 0 <= length <= K and
\* capacity K; a Put about to append holds a batch shorter than K, so append
\* never reallocates.
C15_LengthAndCapacity ==
    /\ \A b \in BatchIds :
          /\ Len(batch[b].elems) <= K
          /\ batch[b].cap = K
    /\ \A t \in Threads :
          pc[t] = "PutApp" => Len(batch[cur[t]].elems) < batch[cur[t]].cap

\* a Put is about to append the K-th value while another batch is already full
C15_Witness ==
    /\ K >= 2
    /\ \E t \in Threads : pc[t] = "PutApp" /\ Len(batch[cur[t]].elems) = K - 1
    /\ \E b \in BatchIds : Len(batch[b].elems) = K

Filling == { t \in Threads : pc[t] = "GetFill" }

RECURSIVE SumFi(_)
SumFi(S) == IF S = {} THEN 0
            ELSE LET t == CHOOSE x \in S : TRUE IN fi[t] + SumFi(S \ {t})

\* the batches left behind by a newFullSlice that a panic of alloc unwound:
\* in no cache and fetched by no call
Abandoned ==
    { b \in BatchIds :
        CopiesIn(b, emptyPool) + CopiesIn(b, fullPool) + Cardinality(Holders(b)) = 0 }

\* the slots of a batch that alloc has filled
Filled(b) == Cardinality({ i \in 1 .. Len(batch[b].elems) : batch[b].elems[i] # Nil })

\* the filled slots of a set of batches
SumFilled(S) ==
    Cardinality({ p \in UNION { {b} \X (1 .. Len(batch[b].elems)) : b \in S } :
                    batch[p[1]].elems[p[2]] # Nil })

\* the batches newFullSlice has made and filled to the end
ReadyMade ==
    { b \in BatchIds \ Abandoned :
        batch[b].by = "newFullSlice" /\ \A t \in Filling : cur[t] # b }

FactoryCount == allocs = N * Cardinality(ReadyMade) + SumFi(Filling)

FactoryCountAll ==
    allocs = N * Cardinality(ReadyMade) + SumFi(Filling) + SumFilled(Abandoned)

FactoryOnlyInPrefill ==
    /\ allocs' # allocs =>
          \E t \in Filling :
              /\ allocs' = allocs + 1
              /\ fi'[t] = fi[t] + 1
              /\ fi[t] < N
              /\ batch'[cur[t]].elems[fi'[t]] # Nil
              /\ pc'[t] = IF fi'[t] = N THEN "GetPop" ELSE "GetFill"
              /\ cur'[t] = cur[t]
    /\ \A t \in Threads :
          /\ (pc[t] # "GetFill" /\ pc'[t] = "GetFill") =>
                pc[t] = "idle" /\ fullPool = EmptyBag /\ fi'[t] = 0
          /\ (pc[t] = "idle" /\ pc'[t] = "PutApp") =>
                /\ allocs' = allocs
                /\ Len(batch') > Len(batch) => batch'[cur'[t]].elems = << >>
          /\ (pc[t] = "PutApp" /\ pc'[t] # "PutApp") => allocs' = allocs

\* C17 (as stated): the factory is invoked only in a Get that found fullPool
\* without a batch, N times in a row for the one new batch; Put never invokes
\* it and makes empty batches.  The completed invocations are N times the
\* ready batches fully made plus the progress of the pre-fills in flight.
C17_Original == [](FactoryCount) /\ [][FactoryOnlyInPrefill]_vars

\* C17 (amended): the factory is invoked only in a Get that found fullPool
\* without a batch, one call after the other for the one new batch, N times
\* unless a call panics; Put never invokes it and makes empty batches.  The
\* completed invocations are N times the ready batches fully made, plus the
\* progress of the pre-fills in flight, plus the values of the pre-fills that
\* a panic of the factory cut short.
C17_FactoryOnlyInGet == [](FactoryCountAll) /\ [][FactoryOnlyInPrefill]_vars

\* a pre-fill is half done while another ready batch has been fully made and
\* a third was cut short after its first value
C17_Witness ==
    /\ \E t \in Threads : pc[t] = "GetFill" /\ 0 < fi[t] /\ fi[t] < N
    /\ ReadyMade # {}
    /\ \E b \in Abandoned : Filled(b) = 1

\* completed calls of one kind
Completed(kind) == Cardinality({ i \in 1 .. Len(trace) : trace[i].op = kind })

\* the values produced for pre-fills that a panic of alloc cut short
Dropped == SumFilled(Abandoned)

\* the values stored in the batches of the pool, those fetched by a call in
\* progress included
Stored == SumFilled(BatchIds \ Abandoned)

\* C18 (as stated): when no call is in progress the values in the batches of
\* both caches number the factory invocations plus the completed Puts minus
\* the completed Gets.
C18_Original ==
    AllIdle => PoolHeld = allocs + Completed("Put") - Completed("Get")

IdleTotal ==
    AllIdle => PoolHeld = allocs - Dropped + Completed("Put") - Completed("Get")

LastOp == trace'[Len(trace')].op

OwnValueOnly ==
    LET lost == Dropped' - Dropped
        d == Stored' - Stored
    IN IF trace' = trace
       THEN \* no call ends: a fetch, or a call of alloc that returns
            /\ lost = 0
            /\ \/ d = 0 /\ allocs' = allocs
               \/ d = 1 /\ allocs' = allocs + 1
       ELSE /\ Len(trace') = Len(trace) + 1
            /\ allocs' = allocs
            /\ \/ LastOp = "Put" /\ d = 1 /\ lost = 0
               \/ LastOp = "Get" /\ d = 0 - 1 /\ lost = 0
               \/ LastOp = "GetPanic" /\ d = 0 - lost

\* C18 (amended): when no call is in progress the values in the batches of
\* both caches number the completed factory invocations, minus the values of
\* pre-fills cut short by a panic of the factory, plus the completed Puts minus
\* the completed Gets; a step of a call changes the stored values by the
\* call's own value, by the one value a pre-fill step adds, or by the values a
\* cut-short pre-fill takes with it.
C18_ValueConservation == [](IdleTotal) /\ [][OwnValueOnly]_vars

\* no call in progress, after a completed Get, a completed Put and a pre-fill
\* cut short after its first value
C18_Witness ==
    /\ AllIdle
    /\ Completed("Put") >= 1
    /\ Completed("Get") >= 1
    /\ Dropped >= 1
    /\ PoolHeld >= 1

Supplied(tag) == \E i \in 1 .. Len(options) : options[i].tag = tag

\* C19: a PoolSizePerCPU of k with 0 < k < 256 and no InitFullPoolSize gives
\* K = 256 and N = 256, not a capacity of k; a capacity below 256 is in effect
\* only when InitFullPoolSize was supplied too, with 0 < N <= k.
C19_SmallCapacityNeedsFill ==
    constructed =>
        LET k == LastVal("PoolSizePerCPU", POOL_SIZE_PER_CPU)
            n == LastVal("InitFullPoolSize", INIT_FULL_POOL_SIZE)
        IN /\ ( /\ Supplied("PoolSizePerCPU")
                /\ ~Supplied("InitFullPoolSize")
                /\ 0 < k
                /\ k < INIT_FULL_POOL_SIZE )
              => (K = POOL_SIZE_PER_CPU /\ N = INIT_FULL_POOL_SIZE)
           /\ K < POOL_SIZE_PER_CPU =>
                 /\ Supplied("PoolSizePerCPU")
                 /\ Supplied("InitFullPoolSize")
                 /\ K = k
                 /\ N = n
                 /\ 0 < n
                 /\ n <= k

\* a pool built with PoolSizePerCPU(3) alone has the default configuration
C19_Witness ==
    /\ constructed
    /\ options = << OptK(3) >>
    /\ K = POOL_SIZE_PER_CPU
    /\ N = INIT_FULL_POOL_SIZE

Caches == Resident(fullPool) \cup Resident(emptyPool)

\* the steps of a Get that makes its batch: the fetch that found fullPool
\* without a batch, a call of alloc that returns, a call of alloc that panics
PrefillStep(t) ==
    \/ pc[t] = "idle" /\ pc'[t] = "GetFill"
    \/ pc[t] = "GetFill" /\ fi'[t] # fi[t]
    \/ pc[t] = "GetFill" /\ pc'[t] = "idle"

PanicStep(t) == pc[t] = "GetFill" /\ pc'[t] = "idle"

PanicLeavesPool ==
    \A t \in Threads :
        /\ PrefillStep(t) =>
              /\ fullPool' = fullPool
              /\ emptyPool' = emptyPool
              /\ \A b \in Caches : batch'[b] = batch[b]
        /\ PanicStep(t) =>
              /\ Len(trace') = Len(trace) + 1
              /\ trace'[Len(trace')].op = "GetPanic"
              /\ held'[t] = held[t]
              /\ CopiesIn(cur[t], fullPool') + CopiesIn(cur[t], emptyPool') = 0
              /\ \A u \in Threads : cur'[u] # cur[t]
              /\ \A b \in Resident(fullPool') : Len(batch'[b].elems) >= 1
              /\ \A b \in Resident(emptyPool') : Len(batch'[b].elems) < batch'[b].cap

\* C20: a panic of the factory during a Get's pre-fill reaches the caller of
\* Get, which gets no value; no step of that Get, the panic included, changes
\* either cache or a batch resident in one; the batch under construction is in
\* neither cache and no call has it; the batches resident keep their caches'
\* length bounds.
C20_FactoryPanicLeavesPool ==
    /\ [](C1_FullPoolNonEmpty /\ C2_EmptyPoolHasRoom)
    /\ [][PanicLeavesPool]_vars

\* a pre-fill has just been cut short after its first value while both caches
\* hold a batch
C20_Witness ==
    /\ Len(trace) > 0
    /\ trace[Len(trace)].op = "GetPanic"
    /\ \E b \in Abandoned : 0 < Filled(b) /\ Filled(b) < Len(batch[b].elems)
    /\ fullPool # EmptyBag
    /\ emptyPool # EmptyBag

====
